---- MODULE Spec2Model ----
(***************************************************************************)
(* Model of the showcode analysis proxy: the POST /analyze handler         *)
(* (backend/api.py), its six provider adapters, the Stream Relay and       *)
(* Persistence Tap (saving_iterator), the Alignment Store                  *)
(* (backend/database.py) and the Envelope Decryption Unit                  *)
(* (backend/utils.py with the client side of tests/test_utils.py).         *)
(*                                                                         *)
(* Python values are modelled as strings: None is the string None below,   *)
(* the booleans True/False are PyTrue/PyFalse (so that the header literals *)
(* "true"/"false" stay different values, as in Python), and a text is a    *)
(* sequence of tokens, so that concatenation and startswith are computed.  *)
(***************************************************************************)
EXTENDS Naturals, Sequences, FiniteSets

VARIABLES
    settings,    \* the process-wide Settings object
    alignments,  \* the rows of table alignments
    lastSave,    \* history: signature -> text of the latest save_alignment call
    reqs,        \* the /analyze requests in flight, by request slot
    crypto,      \* an envelope on its way from encrypt_envelope to decrypt_envelope
    webhooks,    \* tables tracked_repos and webhook_events, and POST /webhooks/github
    oauth        \* tables oauth_states and github_tokens, and the callbacks in flight

vars == <<settings, alignments, lastSave, reqs, crypto, webhooks, oauth>>

(***************************************************************************)
(* Bounds                                                                  *)
(***************************************************************************)
\* The longest stream of text chunks an upstream produces in the model.
MaxChunks == 2

(***************************************************************************)
(* Python values                                                           *)
(***************************************************************************)
None == "<None>"
PyTrue == "<True>"
PyFalse == "<False>"

\* Python truthiness of an Optional[str] or Optional[bool].
Truthy(v) == v \notin {None, "", PyFalse}

\* x if x else None
OrNone(v) == IF Truthy(v) THEN v ELSE None

(***************************************************************************)
(* Texts: sequences of tokens                                              *)
(***************************************************************************)
NL == "\n"
TAG_SERVER_ERROR == "[SERVER_ERROR]"
TAG_API_ERROR == "[API_ERROR]"

startswith(text, prefix) ==
    /\ Len(text) >= Len(prefix)
    /\ SubSeq(text, 1, Len(prefix)) = prefix

RECURSIVE Concat(_)
\* "".join(chunks)
Concat(chunks) ==
    IF chunks = <<>> THEN <<>> ELSE Head(chunks) \o Concat(Tail(chunks))

(***************************************************************************)
(* Settings (backend/config.py)                                            *)
(***************************************************************************)
SERVER_KEY == "server_secret"
RSA_PRIVATE_KEY == "rsa_private_pem"

SettingsValues ==
    [DEMO_MODE : BOOLEAN, SERVER_SIDE_API_KEY : {"", SERVER_KEY},
     RSA_PRIVATE_KEY : {RSA_PRIVATE_KEY}]

\* settings.DEMO_MODE and settings.SERVER_SIDE_API_KEY
DemoFallback(s) == s.DEMO_MODE /\ Truthy(s.SERVER_SIDE_API_KEY)

(***************************************************************************)
(* Envelope Decryption Unit (backend/utils.py, not in the source tree:     *)
(* modelled from the specification, section 4.1, and from the client side  *)
(* of the scheme in tests/test_utils.py).  Byte strings and wire strings   *)
(* are strings built by concatenation; a primitive's inverse is found by   *)
(* search over the finite universe below and fails on anything that is     *)
(* not in the primitive's image.                                           *)
(***************************************************************************)
\* The outcome of a step that raised an exception.
RAISED == "<raised>"

USER_KEY == "user_api_key"
DECRYPT_ERROR == "error"

KeyPairs == {"server", "other"}
DEKs == {"dek1", "dek2"}
IVs == {"iv1", "iv2"}
Plaintexts == {USER_KEY, ""}

\* private_key.public_key()
public_key(pair) == "pub:" \o pair

\* private_key.private_bytes(PEM, PKCS8, NoEncryption()).decode('utf-8')
private_pem(pair) ==
    IF pair = "server" THEN RSA_PRIVATE_KEY ELSE "other_private_pem"

\* serialization.load_pem_private_key(pem.encode(), password=None)
load_pem_private_key(pem) ==
    IF \E pair \in KeyPairs : private_pem(pair) = pem
    THEN CHOOSE pair \in KeyPairs : private_pem(pair) = pem
    ELSE RAISED

\* str.encode('utf-8') and bytes.decode('utf-8')
utf8_encode(text) == "utf8:" \o text

NON_UTF8 == "\\xff\\xfe"

Payloads == {utf8_encode(P) : P \in Plaintexts} \cup {NON_UTF8}

utf8_decode(data) ==
    IF \E P \in Plaintexts : utf8_encode(P) = data
    THEN CHOOSE P \in Plaintexts : utf8_encode(P) = data
    ELSE RAISED

\* RSA with OAEP(MGF1(SHA256), SHA256, label=None)
RSA_OAEP_encrypt(pub, dek) == "oaep(" \o pub \o "," \o dek \o ")"

RSA_OAEP_decrypt(pair, wrapped) ==
    IF \E dek \in DEKs : RSA_OAEP_encrypt(public_key(pair), dek) = wrapped
    THEN CHOOSE dek \in DEKs : RSA_OAEP_encrypt(public_key(pair), dek) = wrapped
    ELSE RAISED

\* AESGCM(dek).encrypt(iv, data, None): ciphertext with its tag
AESGCM_encrypt(dek, iv, data) ==
    "gcm(" \o dek \o "," \o iv \o "," \o data \o ")"

\* AESGCM(dek).decrypt(iv, ciphertext, None): InvalidTag unless the
\* ciphertext was made with this key and nonce.
AESGCM_decrypt(dek, iv, ciphertext) ==
    IF \E data \in Payloads : AESGCM_encrypt(dek, iv, data) = ciphertext
    THEN CHOOSE data \in Payloads : AESGCM_encrypt(dek, iv, data) = ciphertext
    ELSE RAISED

\* A ciphertext that lost its last bytes, and one with a flipped bit.
truncated(ciphertext) == "cut:" \o ciphertext
corrupted(ciphertext) == "flip:" \o ciphertext

Ciphertexts ==
    {AESGCM_encrypt(dek, iv, data) : dek \in DEKs, iv \in IVs, data \in Payloads}

\* The byte strings of the model.
Bytes ==
    IVs \cup Ciphertexts
        \cup {RSA_OAEP_encrypt(public_key(pair), dek) :
                pair \in KeyPairs, dek \in DEKs}
        \cup {truncated(c) : c \in Ciphertexts}
        \cup {corrupted(c) : c \in Ciphertexts}

\* base64.b64encode(data).decode('utf-8') and base64.b64decode(text)
b64encode(data) == "b64:" \o data

NOT_B64 == "not_b64"

b64decode(text) ==
    IF \E data \in Bytes : b64encode(data) = text
    THEN CHOOSE data \in Bytes : b64encode(data) = text
    ELSE RAISED

\* An encrypt_envelope that returns the nonce without encoding it.
encrypt_envelope_raw_iv(data, pub, dek, iv) ==
    [wrapped |-> b64encode(RSA_OAEP_encrypt(pub, dek)),
     iv |-> iv,
     ct |-> b64encode(AESGCM_encrypt(dek, iv, utf8_encode(data)))]

\* The client side: encrypt_envelope(data, public_key), with the data key
\* and the nonce it draws at random as inputs.
encrypt_envelope(data, pub, dek, iv) ==
    [wrapped |-> b64encode(RSA_OAEP_encrypt(pub, dek)),
     iv |-> b64encode(iv),
     ct |-> b64encode(AESGCM_encrypt(dek, iv, utf8_encode(data)))]

\* The algorithm of section 4.1 up to its exception boundary: the plaintext,
\* or RAISED when a step raised.
unwrap_envelope(encrypted_key, iv, ciphertext, private_key) ==
    LET pair == load_pem_private_key(private_key)
        wrapped == b64decode(encrypted_key)
        nonce == b64decode(iv)
        ct == b64decode(ciphertext)
        dek == IF RAISED \in {pair, wrapped}
               THEN RAISED ELSE RSA_OAEP_decrypt(pair, wrapped)
        data == IF RAISED \in {dek, nonce, ct}
                THEN RAISED ELSE AESGCM_decrypt(dek, nonce, ct)
    IN
    IF data = RAISED THEN RAISED ELSE utf8_decode(data)

\* A decrypt_envelope that lets the exception out.
decrypt_envelope_uncaught(encrypted_key, iv, ciphertext, private_key) ==
    unwrap_envelope(encrypted_key, iv, ciphertext, private_key)

\* decrypt_envelope: any exception is downgraded to the sentinel "error".
decrypt_envelope(encrypted_key, iv, ciphertext, private_key) ==
    LET text == unwrap_envelope(encrypted_key, iv, ciphertext, private_key) IN
    IF text = RAISED THEN DECRYPT_ERROR ELSE text

\* The envelope of USER_KEY for the server's key pair, and a damaged one.
SERVER_ENVELOPE == encrypt_envelope(USER_KEY, public_key("server"), "dek1", "iv1")
WRAPPED_OK == SERVER_ENVELOPE.wrapped
IV_OK == SERVER_ENVELOPE.iv
CT_OK == SERVER_ENVELOPE.ct
CT_BAD == b64encode(corrupted(AESGCM_encrypt("dek1", "iv1", utf8_encode(USER_KEY))))

(***************************************************************************)
(* Responses.  A response records what the handler did on the way: which   *)
(* adapter ran, which credential was handed to a provider-client           *)
(* constructor (None: no constructor was called) and where it came from,   *)
(* and the model and prompt the stream was opened with.                    *)
(***************************************************************************)
SYSTEM_PROMPT == "SYSTEM_PROMPT"
SYSTEM_PROMPT_FOR_SNIPPETS == "SYSTEM_PROMPT_FOR_SNIPPETS"

NoCall == [adapter |-> "none", api_key |-> None, source |-> "none",
           derivations |-> <<>>,
           client |-> "none", model |-> None, prompt |-> None,
           base_url |-> None]

\* An error status set on a response that still streams a body.
HTTPException_streamed(status_code, detail, call) ==
    [status |-> status_code, detail |-> detail, streaming |-> TRUE,
     call |-> call]

\* raise HTTPException(status_code, detail) out of a handler whose calls so
\* far are `call`.
HTTPException(status_code, detail, call) ==
    [status |-> status_code, detail |-> detail, streaming |-> FALSE,
     call |-> call]

\* return StreamingResponse(generate_stream(), media_type="text/plain")
StreamingResponse(call) ==
    [status |-> 200, detail |-> "", streaming |-> TRUE, call |-> call]

\* A handler that reports the exception as the caller's mistake.
Unhandled_as_bad_request(call) ==
    [status |-> 400, detail |-> "Bad Request", streaming |-> FALSE,
     call |-> call]

\* An exception no handler catches (KeyError, TypeError): Starlette answers
\* 500 Internal Server Error.
Unhandled(call) ==
    [status |-> 500, detail |-> "Internal Server Error", streaming |-> FALSE,
     call |-> call]

(***************************************************************************)
(* Local adapters                                                          *)
(***************************************************************************)
\* The models the local daemon lists (client.list()).
HostModels == {"m1"}

analyze_codesnippet_endpoint_llama_server(x_local_url, x_use_snippet_model, x_local_snippet_model, x_local_alignment_model) ==
    LET call == [NoCall EXCEPT !.adapter = "srvllama"] IN
    IF ~(/\ Truthy(x_local_snippet_model)
         /\ Truthy(x_use_snippet_model)
         /\ Truthy(x_local_alignment_model)
         /\ Truthy(x_local_url))
    THEN HTTPException(400, "Incomplete headers", call)
    ELSE StreamingResponse([call EXCEPT !.model = x_local_snippet_model,
                                        !.prompt = SYSTEM_PROMPT_FOR_SNIPPETS,
                                        !.base_url = x_local_url])

\* ollama.AsyncClient(host=url) followed by client.list(); None when the
\* daemon cannot be reached.
init_ollama_client(url, daemon_up) == IF daemon_up THEN "client" ELSE None

analyze_codesnippet_endpoint_ollama(x_local_url, x_use_snippet_model, x_local_snippet_model, x_local_alignment_model, daemon_up) ==
    LET call == [NoCall EXCEPT !.adapter = "ollama"]
        client == init_ollama_client(x_local_url, daemon_up)
        model == x_local_snippet_model
    IN
    IF ~(/\ Truthy(x_local_url)
         /\ x_use_snippet_model # None
         /\ Truthy(x_local_alignment_model)
         /\ Truthy(x_local_snippet_model))
    THEN HTTPException(400, "One or more invalid headers!", call)
    ELSE IF ~Truthy(model)
    THEN HTTPException(400, "No model provided", call)
    ELSE IF client = None
    THEN HTTPException(503, "Ollama client is not initialized", 
                       [call EXCEPT !.client = "failed"])
    ELSE IF model \notin HostModels
    THEN HTTPException(404, "Unavailable model",
                       [call EXCEPT !.client = "built"])
    ELSE StreamingResponse(
            [call EXCEPT !.client = "built",
                         !.model = IF Truthy(x_use_snippet_model)
                                   THEN x_local_snippet_model
                                   ELSE x_local_alignment_model,
                         !.prompt = IF Truthy(x_use_snippet_model)
                                    THEN SYSTEM_PROMPT_FOR_SNIPPETS
                                    ELSE SYSTEM_PROMPT,
                         !.base_url = x_local_url])

(***************************************************************************)
(* Hosted adapters.  ctor_ok is the outcome of the provider SDK's client   *)
(* constructor (genai.Client, OpenAI, Anthropic), which the adapters wrap  *)
(* in try/except.                                                          *)
(***************************************************************************)
\* A resolved credential: the key, where it came from, and the derivations
\* (decrypt_envelope calls, fallback substitutions) made on the way.
Credential(api_key, source, derivations) ==
    [ok |-> TRUE, api_key |-> api_key, source |-> source,
     derivations |-> derivations]

NoCredential ==
    [ok |-> FALSE, api_key |-> "", source |-> "none", derivations |-> <<>>]

\* The credential the Gemini adapter resolves; ok = FALSE is its
\* HTTPException(400, "Incomplete headers").
gemini_api_key(s, x_use_snippet_model, x_cloud_api_key, x_cloud_encrypted_key, x_cloud_iv) ==
    IF /\ Truthy(x_cloud_api_key)
       /\ Truthy(x_cloud_encrypted_key)
       /\ Truthy(x_cloud_iv)
       /\ x_use_snippet_model # None
    THEN Credential(decrypt_envelope(x_cloud_encrypted_key, x_cloud_iv,
                                     x_cloud_api_key, s.RSA_PRIVATE_KEY),
                    "envelope", <<"decrypt_envelope">>)
    ELSE IF DemoFallback(s)
    THEN Credential(s.SERVER_SIDE_API_KEY, "fallback", <<"fallback">>)
    ELSE NoCredential

\* An adapter that decrypts the envelope and, when that gave "error" and a
\* fallback is configured, substitutes the server-side key as well.
cloud_api_key_retrying(s, x_cloud_api_key, x_cloud_encrypted_key, x_cloud_iv) ==
    LET key == decrypt_envelope(x_cloud_encrypted_key, x_cloud_iv,
                                x_cloud_api_key, s.RSA_PRIVATE_KEY)
    IN
    IF /\ Truthy(x_cloud_api_key)
       /\ Truthy(x_cloud_encrypted_key)
       /\ Truthy(x_cloud_iv)
    THEN (IF key = DECRYPT_ERROR /\ DemoFallback(s)
          THEN Credential(s.SERVER_SIDE_API_KEY, "fallback",
                          <<"decrypt_envelope", "fallback">>)
          ELSE Credential(key, "envelope", <<"decrypt_envelope">>))
    ELSE IF DemoFallback(s)
    THEN Credential(s.SERVER_SIDE_API_KEY, "fallback", <<"fallback">>)
    ELSE Credential("", "none", <<>>)

\* The credential the OpenAI, Grok and Claude adapters resolve: api_key
\* stays "" when there is neither a complete envelope nor a fallback.
cloud_api_key(s, x_cloud_api_key, x_cloud_encrypted_key, x_cloud_iv) ==
    IF /\ Truthy(x_cloud_api_key)
       /\ Truthy(x_cloud_encrypted_key)
       /\ Truthy(x_cloud_iv)
    THEN Credential(decrypt_envelope(x_cloud_encrypted_key, x_cloud_iv,
                                     x_cloud_api_key, s.RSA_PRIVATE_KEY),
                    "envelope", <<"decrypt_envelope">>)
    ELSE IF DemoFallback(s)
    THEN Credential(s.SERVER_SIDE_API_KEY, "fallback", <<"fallback">>)
    ELSE Credential("", "none", <<>>)

\* isSnippet = True if x_use_snippet_model == 'true' else False, where the
\* adapter receives the router's bool-or-None, not the header string.
isSnippet(x_use_snippet_model) == x_use_snippet_model = "true"

\* An adapter that opens the stream without looking at its client.
hosted_stream_unchecked(name, cred, ctor_ok, not_initialized, model_name, systemPrompt, base_url) ==
    StreamingResponse([NoCall EXCEPT !.adapter = name,
                                     !.api_key = cred.api_key,
                                     !.source = cred.source,
                                     !.derivations = cred.derivations,
                                     !.base_url = base_url,
                                     !.client = IF ctor_ok THEN "built"
                                                ELSE "failed",
                                     !.model = model_name,
                                     !.prompt = systemPrompt])

\* The part the four hosted adapters share once the credential is resolved:
\* construct the client, 503 when that failed, else open the stream.
hosted_stream(name, cred, ctor_ok, not_initialized, model_name, systemPrompt, base_url) ==
    LET call == [NoCall EXCEPT !.adapter = name,
                               !.api_key = cred.api_key,
                               !.source = cred.source,
                               !.derivations = cred.derivations,
                               !.base_url = base_url]
    IN
    IF ~ctor_ok
    THEN HTTPException(503, not_initialized, [call EXCEPT !.client = "failed"])
    ELSE StreamingResponse([call EXCEPT !.client = "built",
                                        !.model = model_name,
                                        !.prompt = systemPrompt])

analyze_codesnippet_endpoint_gemini(s, x_use_snippet_model, x_cloud_api_key, x_cloud_encrypted_key, x_cloud_iv, ctor_ok) ==
    LET cred == gemini_api_key(s, x_use_snippet_model, x_cloud_api_key,
                               x_cloud_encrypted_key, x_cloud_iv)
    IN
    IF ~cred.ok
    THEN HTTPException(400, "Incomplete headers",
                       [NoCall EXCEPT !.adapter = "gemini"])
    ELSE hosted_stream("gemini", cred, ctor_ok,
                       "Gemini client is not initialized",
                       "gemini-2.5-flash",
                       IF isSnippet(x_use_snippet_model)
                       THEN SYSTEM_PROMPT_FOR_SNIPPETS ELSE SYSTEM_PROMPT,
                       "default")

analyze_codesnippet_endpoint_chatgpt(s, x_use_snippet_model, x_cloud_api_key, x_cloud_encrypted_key, x_cloud_iv, ctor_ok) ==
    hosted_stream("openai",
                  cloud_api_key(s, x_cloud_api_key, x_cloud_encrypted_key,
                                x_cloud_iv),
                  ctor_ok, "OpenAI client is not initialized",
                  IF isSnippet(x_use_snippet_model)
                  THEN "gpt-4o-mini" ELSE "gpt-4o",
                  IF isSnippet(x_use_snippet_model)
                  THEN SYSTEM_PROMPT_FOR_SNIPPETS ELSE SYSTEM_PROMPT,
                  "default")

analyze_codesnippet_endpoint_grok(s, x_use_snippet_model, x_cloud_api_key, x_cloud_encrypted_key, x_cloud_iv, ctor_ok) ==
    hosted_stream("grok",
                  cloud_api_key(s, x_cloud_api_key, x_cloud_encrypted_key,
                                x_cloud_iv),
                  ctor_ok, "Grok client is not initialized",
                  "grok-beta",
                  IF isSnippet(x_use_snippet_model)
                  THEN SYSTEM_PROMPT_FOR_SNIPPETS ELSE SYSTEM_PROMPT,
                  "https://api.x.ai/v1")

analyze_codesnippet_endpoint_claude(s, x_use_snippet_model, x_cloud_api_key, x_cloud_encrypted_key, x_cloud_iv, ctor_ok) ==
    hosted_stream("claude",
                  cloud_api_key(s, x_cloud_api_key, x_cloud_encrypted_key,
                                x_cloud_iv),
                  ctor_ok, "Claude client is not initialized",
                  IF isSnippet(x_use_snippet_model)
                  THEN "claude-3-haiku-20240307"
                  ELSE "claude-3-5-sonnet-20240620",
                  IF isSnippet(x_use_snippet_model)
                  THEN SYSTEM_PROMPT_FOR_SNIPPETS ELSE SYSTEM_PROMPT,
                  "default")

(***************************************************************************)
(* Dispatch Router: the part of analyze() that runs before the response    *)
(* is returned (api.py 503-543).                                           *)
(***************************************************************************)
\* has_client_keys = x_cloud_api_key and x_cloud_encrypted_key and x_cloud_iv
has_client_keys(h) ==
    /\ Truthy(h.x_cloud_api_key)
    /\ Truthy(h.x_cloud_encrypted_key)
    /\ Truthy(h.x_cloud_iv)

\* The six headers the router's strict check wants.
required_headers_present(h) ==
    /\ Truthy(h.x_use_local_provider)
    /\ Truthy(h.x_use_snippet_model)
    /\ Truthy(h.x_default_cloud_provider)
    /\ Truthy(h.x_default_local_provider)
    /\ Truthy(h.x_local_alignment_model)
    /\ Truthy(h.x_local_snippet_model)

\* A strict check that does not look at the demo-mode fallback.
incomplete_headers_ignoring_demo(s, h) ==
    /\ ~has_client_keys(h)
    /\ ~required_headers_present(h)

\* The condition under which analyze() raises 400 "Incomplete headers".
incomplete_headers(s, h) ==
    /\ ~has_client_keys(h)
    /\ ~DemoFallback(s)
    /\ ~required_headers_present(h)

\* True if v == 'true' else False if v == 'false' else None
tri_state(v) ==
    IF v = "true" THEN PyTrue ELSE IF v = "false" THEN PyFalse ELSE None

\* REQUEST_MAP: the registered keys, with the number of arguments each
\* lambda takes.
REQUEST_MAP ==
    [k \in {"srvllama", "ollama", "gemini", "grok", "claude", "openai"} |->
        IF k \in {"srvllama", "ollama"} THEN 6 ELSE 5]

\* REQUEST_MAP[f"analyze_codesnippet_{name}"](*args) with nargs arguments:
\* KeyError for an unregistered name, TypeError for a lambda of another
\* arity, else the adapter.
invoke(s, name, nargs, h, useSnippetModel, ctor_ok, daemon_up) ==
    IF name \notin DOMAIN REQUEST_MAP THEN Unhandled(NoCall)
    ELSE IF REQUEST_MAP[name] # nargs THEN Unhandled(NoCall)
    ELSE IF name = "srvllama"
    THEN analyze_codesnippet_endpoint_llama_server(
            h.x_local_url, useSnippetModel, h.x_local_snippet_model,
            h.x_local_alignment_model)
    ELSE IF name = "ollama"
    THEN analyze_codesnippet_endpoint_ollama(
            h.x_local_url, useSnippetModel, h.x_local_snippet_model,
            h.x_local_alignment_model, daemon_up)
    ELSE IF name = "gemini"
    THEN analyze_codesnippet_endpoint_gemini(
            s, useSnippetModel, OrNone(h.x_cloud_api_key),
            OrNone(h.x_cloud_encrypted_key), OrNone(h.x_cloud_iv), ctor_ok)
    ELSE IF name = "grok"
    THEN analyze_codesnippet_endpoint_grok(
            s, useSnippetModel, OrNone(h.x_cloud_api_key),
            OrNone(h.x_cloud_encrypted_key), OrNone(h.x_cloud_iv), ctor_ok)
    ELSE IF name = "claude"
    THEN analyze_codesnippet_endpoint_claude(
            s, useSnippetModel, OrNone(h.x_cloud_api_key),
            OrNone(h.x_cloud_encrypted_key), OrNone(h.x_cloud_iv), ctor_ok)
    ELSE analyze_codesnippet_endpoint_chatgpt(
            s, useSnippetModel, OrNone(h.x_cloud_api_key),
            OrNone(h.x_cloud_encrypted_key), OrNone(h.x_cloud_iv), ctor_ok)

\* A router that always takes the cloud branch.
route_cloud_only(s, h, ctor_ok, daemon_up) ==
    IF incomplete_headers(s, h)
    THEN HTTPException(400, "Incomplete headers", NoCall)
    ELSE invoke(s, h.x_default_cloud_provider, 5, h,
                tri_state(h.x_use_snippet_model), ctor_ok, daemon_up)

\* The response analyze() obtains from the router and the adapter.
route(s, h, ctor_ok, daemon_up) ==
    LET useLocalProvider == tri_state(h.x_use_local_provider)
        useSnippetModel == tri_state(h.x_use_snippet_model)
    IN
    IF incomplete_headers(s, h)
    THEN HTTPException(400, "Incomplete headers", NoCall)
    ELSE IF Truthy(useLocalProvider)
    THEN invoke(s, h.x_default_local_provider, 6, h, useSnippetModel,
                ctor_ok, daemon_up)
    ELSE invoke(s, h.x_default_cloud_provider, 5, h, useSnippetModel,
                ctor_ok, daemon_up)

(***************************************************************************)
(* Alignment Store (backend/database.py): the rows of table alignments,    *)
(* signature being its PRIMARY KEY.  The timestamp column is not read by   *)
(* any code and is left out.                                               *)
(***************************************************************************)
Row(signature, text) == [signature |-> signature, alignment_text |-> text]

\* INSERT OR IGNORE: a row whose key exists is kept, the new one dropped.
save_alignment_insert_ignore(table, signature, text) ==
    IF \E row \in table : row.signature = signature
    THEN table
    ELSE table \cup {Row(signature, text)}

\* INSERT OR REPLACE INTO alignments (signature, alignment_text, timestamp)
save_alignment(table, signature, text) ==
    {row \in table : row.signature # signature} \cup {Row(signature, text)}

\* SELECT signature, alignment_text FROM alignments, as a dict.
get_all_alignments(table) ==
    [sig \in {row.signature : row \in table} |->
        (CHOOSE row \in table : row.signature = sig).alignment_text]

(***************************************************************************)
(* Stream chunks                                                           *)
(***************************************************************************)
SERVER_ERROR_PREFIX == <<NL, TAG_SERVER_ERROR>>
API_ERROR_PREFIX == <<NL, TAG_API_ERROR>>

\* The text chunks an upstream model may stream: ordinary text, a lone
\* newline, and text that merely quotes the tag.
TextChunks == {<<"a">>, <<NL>>, <<TAG_SERVER_ERROR>>}

\* An except clause that yields the exception's text without the sentinel.
hosted_error_chunk_untagged(adapter, failure) == <<"boom">>

\* The in-band sentinel chunk of the adapters whose generate_stream is in
\* api.py (gemini, openai, grok).  `failure` is "api_error" for the
\* provider SDK's own API-error type and "other" for any other exception.
\* The name APIError is bound last by `from openai import OpenAI, APIError`,
\* so only the OpenAI SDK's errors (openai, grok) match `except APIError`.
hosted_error_chunk(adapter, failure) ==
    IF failure = "api_error" /\ adapter \in {"openai", "grok"}
    THEN API_ERROR_PREFIX
    ELSE SERVER_ERROR_PREFIX

\* The sentinel chunk of the stream generators of backend/generators.py
\* (llama_stream, ollama_stream, anthtropic_stream; not in the source tree).
generator_error_chunk(adapter, failure) ==
    IF failure = "api_error" /\ adapter = "claude"
    THEN API_ERROR_PREFIX
    ELSE SERVER_ERROR_PREFIX

error_chunk(adapter, failure) ==
    IF adapter \in {"gemini", "openai", "grok"}
    THEN hosted_error_chunk(adapter, failure)
    ELSE generator_error_chunk(adapter, failure)

(***************************************************************************)
(* Stream Relay and Persistence Tap (api.py 545-568)                       *)
(***************************************************************************)
\* if x_snippet_signature and response and isinstance(response, StreamingResponse)
tapped(x_snippet_signature, response) ==
    Truthy(x_snippet_signature) /\ response.streaming

\* A tap whose chunk variable is shared by the requests in flight.
text_chunk_shared(chunk) ==
    IF reqs[1].produced # <<>>
    THEN reqs[1].produced[Len(reqs[1].produced)]
    ELSE chunk

\* text_chunk: the adapters yield str, so the bytes branch never decodes.
text_chunk(chunk) == chunk

\* A tap that yields what it has accumulated so far instead of the chunk.
saving_iterator_yield_accumulated(chunk, full_text) == full_text \o chunk

\* What saving_iterator yields for a chunk of original_iterator.
saving_iterator_yield(chunk, full_text) == chunk

\* A finally block that forgets the [API_ERROR] prefix.
should_save_server_error_only(full_text) ==
    /\ full_text # <<>>
    /\ ~startswith(full_text, SERVER_ERROR_PREFIX)

\* The condition of the finally block.
should_save(full_text) ==
    /\ full_text # <<>>
    /\ ~startswith(full_text, SERVER_ERROR_PREFIX)
    /\ ~startswith(full_text, API_ERROR_PREFIX)

(***************************************************************************)
(* Requests                                                                *)
(***************************************************************************)
TriValues == {None, "true", "false", "yes"}

HeaderNames ==
    {"x_use_local_provider", "x_use_snippet_model",
     "x_default_local_provider", "x_default_cloud_provider", "x_local_url",
     "x_local_snippet_model", "x_local_alignment_model", "x_cloud_api_key",
     "x_cloud_encrypted_key", "x_cloud_iv", "x_snippet_signature"}

NoHeaders == [n \in HeaderNames |-> None]

\* Every combination the router and the adapters tell apart.
AllHeaders ==
    [x_use_local_provider : TriValues,
     x_use_snippet_model : TriValues,
     x_default_local_provider : {None, "srvllama", "ollama", "gemini", "nope"},
     x_default_cloud_provider :
        {None, "gemini", "openai", "grok", "claude", "ollama", "nope"},
     x_local_url : {None, "http://local"},
     x_local_snippet_model : {None, "m1", "m2"},
     x_local_alignment_model : {None, "m1", "m2"},
     x_cloud_api_key : {None, CT_OK, CT_BAD},
     x_cloud_encrypted_key : {None, WRAPPED_OK},
     x_cloud_iv : {None, IV_OK},
     x_snippet_signature : {None}]

\* Requests with every routing header, with or without an envelope and a
\* signature.
StreamHeaders ==
    {h \in [x_use_local_provider : {"true", "false"},
            x_use_snippet_model : {"true"},
            x_default_local_provider : {"srvllama", "ollama"},
            x_default_cloud_provider : {"gemini", "openai", "claude"},
            x_local_url : {"http://local"},
            x_local_snippet_model : {"m1"},
            x_local_alignment_model : {"m1"},
            x_cloud_api_key : {None, CT_OK},
            x_cloud_encrypted_key : {None, WRAPPED_OK},
            x_cloud_iv : {None, IV_OK},
            x_snippet_signature : {None, "", "sig1"}] :
        \/ has_client_keys(h)
        \/ h.x_cloud_api_key = None /\ h.x_cloud_encrypted_key = None
                                    /\ h.x_cloud_iv = None}

Requests == {1, 2}

NoResponse ==
    [status |-> 0, detail |-> "", streaming |-> FALSE, call |-> NoCall]

\* A request slot with no request in it.
Idle ==
    [pc |-> "idle", hdr |-> NoHeaders, resp |-> NoResponse, sig |-> None,
     tapped |-> FALSE, gen |-> "none", failure |-> "none",
     produced |-> <<>>,
     forwarded |-> <<>>, full_text |-> <<>>, saves |-> <<>>]

\* No envelope under way.
NoEnvelope ==
    [pc |-> "idle", data |-> "", pair |-> "server", dek |-> "", nonce |-> "",
     wrapped |-> "", iv |-> "", ct |-> "", malformed |-> FALSE,
     private_key |-> "", result |-> ""]

\* The GitHub tables and the webhook endpoint of a process whose
\* settings.GITHUB_WEBHOOK_SECRET is `secret`, before any request.
WebhooksStart(secret) ==
    [GITHUB_WEBHOOK_SECRET |-> secret,
     tracked_repos |-> {},
     webhook_events |-> <<>>,
     deliveries |-> 0,
     request |-> [x_github_event |-> "", x_hub_signature_256 |-> None,
                  body |-> ""],
     response |-> [status |-> 0, event_id |-> 0]]

\* A callback slot with no callback in it.
NoCallback ==
    [pc |-> "idle", state |-> "", found |-> FALSE, presented_at |-> 0,
     expires_at |-> 0, result |-> None]

OAuthCallbacks == {1, 2}

\* The OAuth tables before any login, at time 0.
OAuthStart ==
    [now |-> 0, oauth_states |-> {}, issued |-> {}, consumed |-> {},
     github_tokens |-> {}, completed |-> <<>>, callbacks |-> [c \in OAuthCallbacks |-> NoCallback]]

Init ==
    /\ webhooks = WebhooksStart("")
    /\ oauth = OAuthStart
    /\ crypto = NoEnvelope
    /\ settings \in SettingsValues
    /\ alignments = {}
    /\ lastSave = [sig \in {} |-> <<>>]
    /\ reqs = [r \in Requests |-> Idle]

(***************************************************************************)
(* The event loop.  Every handler and generator runs on the one thread of  *)
(* the event loop.  generate_stream of the gemini, chatgpt and grok        *)
(* adapters is an async generator that opens and iterates the provider     *)
(* SDK's synchronous stream with a plain `for`: while it waits for the     *)
(* next chunk it does not return to the loop.  The local adapters and the  *)
(* claude adapter iterate their stream generator with `async for`.         *)
(***************************************************************************)
\* Request q is inside a synchronous wait that holds the event loop.
Blocking(q) ==
    /\ q.pc = "await"
    /\ q.gen = "running"
    /\ q.resp.call.adapter \in {"gemini", "openai", "grok"}

\* The event loop is free to run a step of request r.
LoopFree(r) == \A o \in Requests \ {r} : ~Blocking(reqs[o])

(***************************************************************************)
(* analyze(): from the request to the response object it returns.          *)
(***************************************************************************)
Analyze(r, H) ==
    /\ LoopFree(r)
    /\ reqs[r].pc = "idle"
    /\ \E h \in H, ctor_ok \in BOOLEAN, daemon_up \in BOOLEAN :
         LET response == route(settings, h, ctor_ok, daemon_up) IN
         reqs' = [reqs EXCEPT ![r] =
                    [Idle EXCEPT !.pc = "responded",
                                 !.hdr = h,
                                 !.resp = response,
                                 !.sig = h.x_snippet_signature,
                                 !.tapped = tapped(h.x_snippet_signature,
                                                   response)]]
    /\ UNCHANGED <<webhooks, oauth, settings, alignments, lastSave, crypto>>

\* A response that is no stream (an HTTPException, a 500) is sent whole.
SendError(r) ==
    /\ LoopFree(r)
    /\ reqs[r].pc = "responded"
    /\ ~reqs[r].resp.streaming
    /\ reqs' = [reqs EXCEPT ![r] = Idle]
    /\ UNCHANGED <<webhooks, oauth, settings, alignments, lastSave, crypto>>

\* The server sends the status line of a StreamingResponse and starts to
\* iterate its body; analyze() has returned and only what the generators
\* close over is kept.
SendStart(r) ==
    /\ LoopFree(r)
    /\ reqs[r].pc = "responded"
    /\ reqs[r].resp.streaming
    /\ reqs' = [reqs EXCEPT ![r].pc = "await",
                            ![r].hdr = NoHeaders,
                            ![r].resp.call =
                                [NoCall EXCEPT !.adapter =
                                    reqs[r].resp.call.adapter],
                            ![r].gen = "running"]
    /\ UNCHANGED <<webhooks, oauth, settings, alignments, lastSave, crypto>>

(***************************************************************************)
(* Streaming.  The server pulls the body iterator: the adapter's           *)
(* generate_stream directly, or saving_iterator around it when the         *)
(* request is tapped.  pc is "await" while the next chunk of the adapter   *)
(* is awaited and "at_yield" while the generators are suspended at their   *)
(* yield and the server sends the chunk.                                   *)
(***************************************************************************)
\* The adapter yields chunk c; the tap, if any, yields it on at once.
Deliver(r, c, gen, failure) ==
    LET q == reqs[r] IN
    reqs' = [reqs EXCEPT ![r].produced = Append(q.produced, c),
                         ![r].forwarded =
                            Append(q.forwarded,
                                   IF q.tapped
                                   THEN saving_iterator_yield(c, q.full_text)
                                   ELSE c),
                         ![r].gen = gen,
                         ![r].failure = failure,
                         ![r].pc = "at_yield"]

\* A tap that commits and then goes on awaiting its adapter.
Finally_keeps_running(r, pc) ==
    LET q == reqs[r]
        save == q.tapped /\ should_save(q.full_text)
    IN
    /\ alignments' = IF save
                     THEN save_alignment(alignments, q.sig, q.full_text)
                     ELSE alignments
    /\ lastSave' = IF save
                   THEN [sig \in DOMAIN lastSave \cup {q.sig} |->
                            IF sig = q.sig THEN q.full_text ELSE lastSave[sig]]
                   ELSE lastSave
    /\ reqs' = [reqs EXCEPT ![r].pc = IF save THEN "await" ELSE pc,
                            ![r].saves = IF save
                                         THEN Append(q.saves,
                                                     <<q.sig, q.full_text>>)
                                         ELSE q.saves]

\* The finally block of saving_iterator, entered with pc becoming `pc`.
Finally(r, pc) ==
    LET q == reqs[r]
        save == q.tapped /\ should_save(q.full_text)
    IN
    /\ alignments' = IF save
                     THEN save_alignment(alignments, q.sig, q.full_text)
                     ELSE alignments
    /\ lastSave' = IF save
                   THEN [sig \in DOMAIN lastSave \cup {q.sig} |->
                            IF sig = q.sig THEN q.full_text ELSE lastSave[sig]]
                   ELSE lastSave
    /\ reqs' = [reqs EXCEPT ![r].pc = pc,
                            ![r].saves = IF save
                                         THEN Append(q.saves,
                                                     <<q.sig, q.full_text>>)
                                         ELSE q.saves]

\* The upstream delivers a text chunk.
AdapterYield(r, C) ==
    /\ LoopFree(r)
    /\ reqs[r].pc = "await"
    /\ reqs[r].gen = "running"
    /\ Len(reqs[r].produced) < MaxChunks
    /\ \E c \in C : Deliver(r, c, "running", "none")
    /\ UNCHANGED <<webhooks, oauth, settings, alignments, lastSave, crypto>>

\* Opening or iterating the upstream stream raises: the adapter yields one
\* sentinel chunk and its generator then falls off its end.
AdapterError(r) ==
    /\ LoopFree(r)
    /\ reqs[r].pc = "await"
    /\ reqs[r].gen = "running"
    /\ \E failure \in {"api_error", "other"} :
         Deliver(r, error_chunk(reqs[r].resp.call.adapter, failure), "failed",
                 failure)
    /\ UNCHANGED <<webhooks, oauth, settings, alignments, lastSave, crypto>>

\* The server asks for the next chunk: the tap appends the chunk it had
\* yielded to full_text and awaits the adapter again.
Resume(r) ==
    LET q == reqs[r] IN
    /\ LoopFree(r)
    /\ q.pc = "at_yield"
    /\ reqs' = [reqs EXCEPT ![r].pc = "await",
                            ![r].full_text =
                                IF q.tapped
                                THEN q.full_text \o
                                     text_chunk(q.produced[Len(q.produced)])
                                ELSE q.full_text]
    /\ UNCHANGED <<webhooks, oauth, settings, alignments, lastSave, crypto>>

\* The adapter's stream is exhausted (also after a sentinel chunk).
AdapterEnd(r) ==
    /\ LoopFree(r)
    /\ reqs[r].pc = "await"
    /\ Finally(r, "done")
    /\ UNCHANGED <<webhooks, oauth, settings, crypto>>

\* The caller disconnects before the stream is drained: the server cancels
\* the response task or drops the body iterator, the generators are closed
\* where they are suspended, and the finally block runs.
Disconnect(r) ==
    /\ LoopFree(r)
    /\ reqs[r].pc \in {"await", "at_yield"}
    /\ Finally(r, "closed")
    /\ UNCHANGED <<webhooks, oauth, settings, crypto>>

\* The response is over.
Finish(r) ==
    /\ LoopFree(r)
    /\ reqs[r].pc \in {"done", "closed"}
    /\ reqs' = [reqs EXCEPT ![r] = Idle]
    /\ UNCHANGED <<webhooks, oauth, settings, alignments, lastSave, crypto>>

(***************************************************************************)
(* The envelope on its way: sealed by a client for a key pair, possibly    *)
(* damaged in transit, then handed to decrypt_envelope with some PEM.      *)
(***************************************************************************)
\* A client seals plaintext P for key pair `pair`.
EncryptEnvelope ==
    /\ crypto.pc = "idle"
    /\ \E P \in Plaintexts, pair \in KeyPairs, dek \in DEKs, iv \in IVs :
         LET e == encrypt_envelope(P, public_key(pair), dek, iv) IN
         crypto' = [NoEnvelope EXCEPT !.pc = "sealed", !.data = P,
                                      !.pair = pair, !.dek = dek,
                                      !.nonce = iv, !.wrapped = e.wrapped,
                                      !.iv = e.iv, !.ct = e.ct]
    /\ UNCHANGED <<webhooks, oauth, settings, alignments, lastSave, reqs>>

\* The ways an envelope arrives malformed.
Malformations ==
    {"key_not_b64", "iv_not_b64", "ct_not_b64", "ct_truncated",
     "ct_corrupted", "other_iv", "other_dek", "non_utf8"}

malform(e, kind) ==
    IF kind = "key_not_b64" THEN [e EXCEPT !.wrapped = NOT_B64]
    ELSE IF kind = "iv_not_b64" THEN [e EXCEPT !.iv = NOT_B64]
    ELSE IF kind = "ct_not_b64" THEN [e EXCEPT !.ct = NOT_B64]
    ELSE IF kind = "ct_truncated"
    THEN [e EXCEPT !.ct = b64encode(truncated(b64decode(e.ct)))]
    ELSE IF kind = "ct_corrupted"
    THEN [e EXCEPT !.ct = b64encode(corrupted(b64decode(e.ct)))]
    ELSE IF kind = "other_iv"
    THEN [e EXCEPT !.iv = b64encode(CHOOSE iv \in IVs : iv # e.nonce)]
    ELSE IF kind = "other_dek"
    THEN [e EXCEPT !.wrapped =
            b64encode(RSA_OAEP_encrypt(public_key(e.pair),
                                       CHOOSE dek \in DEKs : dek # e.dek))]
    ELSE [e EXCEPT !.ct = b64encode(AESGCM_encrypt(e.dek, e.nonce, NON_UTF8))]

Malform ==
    /\ crypto.pc = "sealed"
    /\ ~crypto.malformed
    /\ \E kind \in Malformations :
         crypto' = [malform(crypto, kind) EXCEPT !.malformed = TRUE]
    /\ UNCHANGED <<webhooks, oauth, settings, alignments, lastSave, reqs>>

\* The PEM strings a caller may pass: a pair's private key, or no key at all.
PrivateKeys == {private_pem(pair) : pair \in KeyPairs} \cup {""}

DecryptEnvelope ==
    /\ crypto.pc = "sealed"
    /\ \E pem \in PrivateKeys :
         crypto' = [crypto EXCEPT
                      !.pc = "decrypted",
                      !.private_key = pem,
                      !.result = decrypt_envelope(crypto.wrapped, crypto.iv,
                                                  crypto.ct, pem)]
    /\ UNCHANGED <<webhooks, oauth, settings, alignments, lastSave, reqs>>

DiscardEnvelope ==
    /\ crypto.pc = "decrypted"
    /\ crypto' = NoEnvelope
    /\ UNCHANGED <<webhooks, oauth, settings, alignments, lastSave, reqs>>

(***************************************************************************)
(* Specifications                                                          *)
(***************************************************************************)
\* One request at a time with every routing header: the relay and the tap.
Next ==
    \/ Analyze(1, StreamHeaders)
    \/ SendError(1)
    \/ SendStart(1)
    \/ AdapterYield(1, TextChunks)
    \/ AdapterError(1)
    \/ Resume(1)
    \/ AdapterEnd(1)
    \/ Disconnect(1)
    \/ Finish(1)

Spec == Init /\ [][Next]_vars

\* One request at a time with any headers: the router and the adapters.
NextDispatch ==
    \/ Analyze(1, AllHeaders)
    \/ SendError(1)
    \/ SendStart(1)
    \/ AdapterYield(1, TextChunks)
    \/ AdapterError(1)
    \/ Resume(1)
    \/ AdapterEnd(1)
    \/ Disconnect(1)
    \/ Finish(1)

SpecDispatch == Init /\ [][NextDispatch]_vars

\* The Envelope Decryption Unit on its own.
NextEnvelope ==
    \/ EncryptEnvelope
    \/ Malform
    \/ DecryptEnvelope
    \/ DiscardEnvelope

SpecEnvelope == Init /\ [][NextEnvelope]_vars

\* Two requests in flight at once in demo mode, local or hosted, untapped:
\* the scheduling of their steps on the event loop.
SchedHeaders ==
    {[NoHeaders EXCEPT !.x_use_local_provider = local,
                       !.x_default_local_provider = "srvllama",
                       !.x_default_cloud_provider = cloud,
                       !.x_use_snippet_model = "true",
                       !.x_local_url = "http://local",
                       !.x_local_snippet_model = "m1",
                       !.x_local_alignment_model = "m1"] :
        local \in {"true", "false"}, cloud \in {"openai", "claude"}}

SchedChunks == {<<"a">>}

InitSched ==
    /\ Init
    /\ DemoFallback(settings)

NextSched ==
    \E r \in Requests :
        \/ Analyze(r, SchedHeaders)
        \/ SendError(r)
        \/ SendStart(r)
        \/ AdapterYield(r, SchedChunks)
        \/ AdapterError(r)
        \/ Resume(r)
        \/ AdapterEnd(r)
        \/ Disconnect(r)
        \/ Finish(r)

SpecSched == InitSched /\ [][NextSched]_vars

\* Two requests in flight at once, both tapped, their steps interleaved.
RaceHeaders ==
    {h \in StreamHeaders :
        /\ h.x_use_local_provider = "true"
        /\ h.x_default_cloud_provider = "gemini"
        /\ ~has_client_keys(h)
        /\ h.x_snippet_signature = "sig1"}

RaceChunks == {<<"a">>}

\* The default configuration: no demo mode, no server-side key.
InitRace ==
    /\ Init
    /\ ~settings.DEMO_MODE
    /\ settings.SERVER_SIDE_API_KEY = ""

NextRace ==
    \E r \in Requests :
        \/ Analyze(r, RaceHeaders)
        \/ SendError(r)
        \/ SendStart(r)
        \/ AdapterYield(r, RaceChunks)
        \/ AdapterError(r)
        \/ Resume(r)
        \/ AdapterEnd(r)
        \/ Disconnect(r)
        \/ Finish(r)

SpecRace == InitRace /\ [][NextRace]_vars

\* The same race, the upstream of each request streaming text of its own.
OwnToken(r) == IF r = 1 THEN "a" ELSE "b"

NextIsolation ==
    \E r \in Requests :
        \/ Analyze(r, RaceHeaders)
        \/ SendError(r)
        \/ SendStart(r)
        \/ AdapterYield(r, {<<OwnToken(r)>>})
        \/ AdapterError(r)
        \/ Resume(r)
        \/ AdapterEnd(r)
        \/ Disconnect(r)
        \/ Finish(r)

SpecIsolation == InitRace /\ [][NextIsolation]_vars

(***************************************************************************)
(* GitHub webhooks (backend/github/webhooks.py, POST /webhooks/github).    *)
(* Header values and digests are strings; hmac.new(...).hexdigest() is a   *)
(* string that names its key and its message, so two digests are equal     *)
(* exactly when key and message are.                                       *)
(***************************************************************************)
MaxDeliveries == 2

\* A value the operator sets GITHUB_WEBHOOK_SECRET to.
WEBHOOK_SECRET == "whsec"

\* settings.GITHUB_WEBHOOK_SECRET: "" unless configured.
WebhookSecrets == {"", WEBHOOK_SECRET}

\* Values of secrets.token_hex(32).
TokenHex == {"tok1", "tok2"}

RepoNames == {"o/r1", "o/r2"}

\* The JSON body GitHub sends for repository `repo`.
BodyOf(repo) == "{repository:{full_name:" \o repo \o "}}"

NOT_JSON == "not json"

\* Request bodies: an event of a repository, JSON without a repository,
\* and bytes that are no JSON.
Bodies == {BodyOf(repo) : repo \in RepoNames} \cup {"{}", NOT_JSON}

\* payload["repository"].get("full_name"), None when there is none.
full_name(body) ==
    IF \E repo \in RepoNames : body = BodyOf(repo)
    THEN CHOOSE repo \in RepoNames : body = BodyOf(repo)
    ELSE None

\* hmac.new(key.encode(), msg, hashlib.sha256).hexdigest()
hmac_sha256(key, msg) == "hmac(" \o key \o "," \o msg \o ")"

Digests ==
    {hmac_sha256(key, body) :
        key \in {WEBHOOK_SECRET} \cup TokenHex, body \in Bodies}
    \cup {"00"}

\* The header GitHub computes for a body with a hook's secret.
sign(secret, body) == "sha256=" \o hmac_sha256(secret, body)

\* Values of the X-Hub-Signature-256 header: absent, empty, a sha256
\* signature, or another scheme.
SignatureHeaders ==
    {None, ""} \cup {"sha256=" \o d : d \in Digests}
               \cup {"sha1=" \o d : d \in {"00"}}

EventTypes == {"push", "ping"}

\* WebhookHandler.verify_signature
verify_signature(webhook_secret, payload, signature) ==
    IF \/ ~Truthy(signature)
       \/ ~\E d \in Digests : signature = "sha256=" \o d
    THEN FALSE
    ELSE LET expected_signature ==
                 CHOOSE d \in Digests : signature = "sha256=" \o d
             computed == hmac_sha256(webhook_secret, payload)
         IN computed = expected_signature

\* A row of table tracked_repos.
TrackedRepo(repo_full_name, webhook_secret, synced) ==
    [repo_full_name |-> repo_full_name, webhook_secret |-> webhook_secret,
     synced |-> synced]

\* update_tracked_repo_sync: the rows of the repository get a sync time.
update_tracked_repo_sync(tracked_repos, repo_full_name) ==
    {IF row.repo_full_name = repo_full_name
     THEN [row EXCEPT !.synced = TRUE]
     ELSE row : row \in tracked_repos}

\* WebhookHandler.handle_event: the event is saved, its handler runs and it
\* is marked processed; a payload that names no repository is answered
\* without being saved.
handle_event(w, event_type, body, signature) ==
    LET repo_full_name == full_name(body)
        event_id == Len(w.webhook_events) + 1
    IN
    IF repo_full_name = None
    THEN [w EXCEPT !.response = [status |-> 200, event_id |-> 0]]
    ELSE [w EXCEPT
            !.webhook_events =
                Append(@, [event_type |-> event_type,
                           repo |-> repo_full_name,
                           payload |-> body,
                           signature |-> signature,
                           processed |-> TRUE]),
            !.tracked_repos =
                IF event_type = "push"
                THEN update_tracked_repo_sync(@, repo_full_name)
                ELSE @,
            !.response = [status |-> 200, event_id |-> event_id]]

\* receive_webhook
receive_webhook(w, x_github_event, x_hub_signature_256, body) ==
    IF /\ Truthy(w.GITHUB_WEBHOOK_SECRET)
       /\ Truthy(x_hub_signature_256)
       /\ ~verify_signature(w.GITHUB_WEBHOOK_SECRET, body,
                            x_hub_signature_256)
    THEN [w EXCEPT !.response = [status |-> 401, event_id |-> 0]]
    ELSE IF body = NOT_JSON
    THEN [w EXCEPT !.response = [status |-> 400, event_id |-> 0]]
    ELSE handle_event(w, x_github_event, body, x_hub_signature_256)

\* POST /webhooks/github with any event type, signature header and body.
ReceiveWebhook ==
    /\ webhooks.deliveries < MaxDeliveries
    /\ \E x_github_event \in EventTypes, body \in Bodies,
          x_hub_signature_256 \in SignatureHeaders :
         LET w == [webhooks EXCEPT
                     !.deliveries = @ + 1,
                     !.request = [x_github_event |-> x_github_event,
                                  x_hub_signature_256 |-> x_hub_signature_256,
                                  body |-> body]]
         IN webhooks' = receive_webhook(w, x_github_event,
                                        x_hub_signature_256, body)
    /\ UNCHANGED <<settings, alignments, lastSave, reqs, crypto, oauth>>

\* TrackingService.start_tracking for a repository that is not tracked
\* yet: a secret is generated, the webhook is created on GitHub with it
\* and the row is saved; when GitHub refuses, nothing is saved.
StartTracking ==
    /\ \E repo \in RepoNames, webhook_secret \in TokenHex,
          created \in BOOLEAN :
         /\ ~\E row \in webhooks.tracked_repos : row.repo_full_name = repo
         /\ webhooks' =
              IF created
              THEN [webhooks EXCEPT
                      !.tracked_repos =
                          @ \cup {TrackedRepo(repo, webhook_secret, FALSE)}]
              ELSE webhooks
    /\ UNCHANGED <<settings, alignments, lastSave, reqs, crypto, oauth>>

\* The default configuration, with or without a webhook secret.
InitWebhooks ==
    /\ webhooks \in {WebhooksStart(secret) : secret \in WebhookSecrets}
    /\ oauth = OAuthStart
    /\ crypto = NoEnvelope
    /\ settings \in {v \in SettingsValues :
                       ~v.DEMO_MODE /\ v.SERVER_SIDE_API_KEY = ""}
    /\ alignments = {}
    /\ lastSave = [sig \in {} |-> <<>>]
    /\ reqs = [r \in Requests |-> Idle]

NextWebhooks ==
    \/ ReceiveWebhook
    \/ StartTracking

SpecWebhooks == InitWebhooks /\ [][NextWebhooks]_vars

(***************************************************************************)
(* GitHub OAuth (backend/github/oauth.py, /auth/github/login and           *)
(* /auth/github/callback).  Time is a clock of ticks.  handle_callback is  *)
(* a coroutine on the event loop: from get_oauth_state to                  *)
(* delete_oauth_state it calls only synchronous functions, so that part    *)
(* runs without interruption; its first suspension point is the await of   *)
(* _exchange_code, where another callback may run.                         *)
(***************************************************************************)
MaxTime == 3

\* expires_at = utcnow() + timedelta(minutes=10), in ticks.
StateTTL == 1

\* Values of secrets.token_urlsafe(32).
OAuthStates == {"st1", "st2"}

\* The state parameter of a callback: an issued value or any other string.
CallbackStates == OAuthStates \cup {"forged"}

\* A row of table oauth_states.
OAuthStateRow(state, expires_at) == [state |-> state, expires_at |-> expires_at]

\* get_oauth_state returning None.
NoStateData == OAuthStateRow(None, 0)

\* save_oauth_state: INSERT; state is the primary key, a duplicate fails.
save_oauth_state(oauth_states, state, expires_at) ==
    IF \E row \in oauth_states : row.state = state
    THEN oauth_states
    ELSE oauth_states \cup {OAuthStateRow(state, expires_at)}

\* get_oauth_state
get_oauth_state(oauth_states, state) ==
    IF \E row \in oauth_states : row.state = state
    THEN CHOOSE row \in oauth_states : row.state = state
    ELSE NoStateData

\* A delete that leaves the row in place.
delete_oauth_state_kept(oauth_states, state) == oauth_states

\* delete_oauth_state
delete_oauth_state(oauth_states, state) ==
    {row \in oauth_states : row.state # state}

\* cleanup_expired_oauth_states
cleanup_expired_oauth_states(oauth_states, now) ==
    {row \in oauth_states : ~(row.expires_at < now)}

\* Time passes.
Tick ==
    /\ oauth.now < MaxTime
    /\ oauth' = [oauth EXCEPT !.now = @ + 1]
    /\ UNCHANGED <<settings, alignments, lastSave, reqs, crypto, webhooks>>

\* OAuthHandler.get_authorization_url: a fresh state is stored.
GetAuthorizationUrl ==
    /\ \E state \in OAuthStates \ oauth.issued :
         oauth' = [oauth EXCEPT
                     !.oauth_states =
                         save_oauth_state(
                             cleanup_expired_oauth_states(@, oauth.now),
                             state, oauth.now + StateTTL),
                     !.issued = @ \cup {state}]
    /\ UNCHANGED <<settings, alignments, lastSave, reqs, crypto, webhooks>>

\* OAuthHandler.handle_callback up to its first await: the state is looked
\* up, checked for expiry and deleted.
HandleCallback(c) ==
    /\ oauth.callbacks[c].pc = "idle"
    /\ \E state \in CallbackStates :
         LET state_data == get_oauth_state(oauth.oauth_states, state) IN
         oauth' =
            IF state_data = NoStateData
            THEN [oauth EXCEPT
                    !.callbacks[c] =
                        [NoCallback EXCEPT !.pc = "returned",
                                           !.state = state]]
            ELSE IF oauth.now > state_data.expires_at
            THEN [oauth EXCEPT
                    !.oauth_states = delete_oauth_state(@, state),
                    !.consumed = @ \cup {state},
                    !.callbacks[c] =
                        [NoCallback EXCEPT !.pc = "returned",
                                           !.state = state,
                                           !.found = TRUE]]
            ELSE [oauth EXCEPT
                    !.oauth_states = delete_oauth_state(@, state),
                    !.consumed = @ \cup {state},
                    !.callbacks[c] =
                        [NoCallback EXCEPT
                            !.pc = "exchange",
                            !.state = state,
                            !.found = TRUE,
                            !.presented_at = oauth.now,
                            !.expires_at = state_data.expires_at]]
    /\ UNCHANGED <<settings, alignments, lastSave, reqs, crypto, webhooks>>

\* handle_callback after the await: the code is exchanged, the user is
\* fetched and the token encrypted; when all of it succeeds the token is
\* saved, otherwise None is returned.
ExchangeCode(c) ==
    /\ oauth.callbacks[c].pc = "exchange"
    /\ \E ok \in BOOLEAN :
         oauth' =
            IF ok
            THEN [oauth EXCEPT
                    !.github_tokens = @ \cup {"u1"},
                    !.completed =
                        Append(@, [state |-> oauth.callbacks[c].state,
                                   presented_at |->
                                       oauth.callbacks[c].presented_at,
                                   expires_at |->
                                       oauth.callbacks[c].expires_at]),
                    !.callbacks[c].pc = "returned",
                    !.callbacks[c].result = "ok"]
            ELSE [oauth EXCEPT !.callbacks[c].pc = "returned"]
    /\ UNCHANGED <<settings, alignments, lastSave, reqs, crypto, webhooks>>

\* github_callback sends its redirect.
ReturnCallback(c) ==
    /\ oauth.callbacks[c].pc = "returned"
    /\ oauth' = [oauth EXCEPT !.callbacks[c] = NoCallback]
    /\ UNCHANGED <<settings, alignments, lastSave, reqs, crypto, webhooks>>

NextOAuth ==
    \/ Tick
    \/ GetAuthorizationUrl
    \/ \E c \in OAuthCallbacks :
          \/ HandleCallback(c)
          \/ ExchangeCode(c)
          \/ ReturnCallback(c)

SpecOAuth == InitRace /\ [][NextOAuth]_vars

(***************************************************************************)
(* Properties of the Stream Relay and Persistence Tap                      *)
(***************************************************************************)
\* The accumulated text starts with a recognised error-sentinel prefix.
SentinelPrefixed(text) ==
    \/ Len(text) >= 2 /\ text[1] = NL /\ text[2] = TAG_SERVER_ERROR
    \/ Len(text) >= 2 /\ text[1] = NL /\ text[2] = TAG_API_ERROR

Drained(q) == q.pc = "done"

IsPrefix(s, t) == Len(s) <= Len(t) /\ SubSeq(t, 1, Len(s)) = s

\* C1 as stated: once the adapter's stream is exhausted, a record
\* {signature -> accumulated text} has been upserted if and only if a
\* signature was supplied and the accumulated text does not start with an
\* error-sentinel prefix, the empty accumulation included.
C1_CommitIffSignatureAndNoSentinel ==
    \A r \in Requests :
        LET q == reqs[r]
            text == Concat(q.produced)
        IN
        Drained(q) =>
            IF Truthy(q.sig) /\ ~SentinelPrefixed(text)
            THEN q.saves = <<(<<q.sig, text>>)>> /\ Row(q.sig, text) \in alignments
            ELSE q.saves = <<>>

\* C1 (amended): once the adapter's stream is exhausted, a record
\* {signature -> accumulated text} has been upserted if and only if a
\* non-empty signature was supplied, the accumulated text is not empty and
\* it does not start with "\n[SERVER_ERROR]" or "\n[API_ERROR]".
C1_CommitRule ==
    \A r \in Requests :
        LET q == reqs[r]
            text == Concat(q.produced)
        IN
        Drained(q) =>
            IF Truthy(q.sig) /\ text # <<>> /\ ~SentinelPrefixed(text)
            THEN q.saves = <<(<<q.sig, text>>)>> /\ Row(q.sig, text) \in alignments
            ELSE q.saves = <<>>

\* A drained two-chunk stream whose text was committed.
C1_Witness ==
    /\ Drained(reqs[1])
    /\ Len(reqs[1].produced) = 2
    /\ reqs[1].saves # <<>>
    /\ Row("sig1", Concat(reqs[1].produced)) \in alignments

\* C2: a request whose caller disconnected before the stream was drained
\* has written nothing to the Alignment Store.
C2_NoCommitOnDisconnect ==
    \A r \in Requests : reqs[r].pc = "closed" => reqs[r].saves = <<>>

\* C3: a request whose stream ended with an in-band error sentinel chunk
\* has written no Alignment Record, whatever was forwarded before it
\* (stated for the adapters whose generate_stream is in api.py).
C3_NoCommitAfterSentinel ==
    \A r \in Requests :
        (/\ Drained(reqs[r])
         /\ reqs[r].gen = "failed"
         /\ reqs[r].resp.call.adapter \in {"gemini", "openai", "grok"})
        => reqs[r].saves = <<>>

\* C4: at every moment the chunks forwarded to the caller are a prefix of
\* the chunks the adapter produced, unmodified and in order, and once the
\* stream is drained they are exactly the adapter's chunks, with or
\* without a signature.
C4_RelayFidelity ==
    \A r \in Requests :
        /\ IsPrefix(reqs[r].forwarded, reqs[r].produced)
        /\ Drained(reqs[r]) => reqs[r].forwarded = reqs[r].produced

\* A tapped stream of two different chunks has been relayed and drained.
C4_Witness ==
    /\ Drained(reqs[1])
    /\ reqs[1].tapped
    /\ Len(reqs[1].forwarded) = 2
    /\ reqs[1].forwarded[1] # reqs[1].forwarded[2]

\* C5: the Alignment Store holds exactly one row per signature ever saved,
\* and read back it maps each signature to the text of its most recent
\* save, also when two requests commit the same signature.
C5_UpsertLastWriterWins ==
    /\ \A row1 \in alignments, row2 \in alignments :
          row1.signature = row2.signature => row1 = row2
    /\ {row.signature : row \in alignments} = DOMAIN lastSave
    /\ get_all_alignments(alignments) = lastSave

\* Both requests have committed the same signature with different texts.
C5_Witness ==
    /\ reqs[1].saves # <<>>
    /\ reqs[2].saves # <<>>
    /\ reqs[1].saves[1][1] = reqs[2].saves[1][1]
    /\ reqs[1].saves[1][2] # reqs[2].saves[1][2]

(***************************************************************************)
(* Properties of the Dispatch Router and the adapters' preconditions,      *)
(* read in the state where analyze() has just produced its response.       *)
(***************************************************************************)
Responded(q) == q.pc = "responded"

HostedAdapters == {"gemini", "openai", "grok", "claude"}

EnvelopeHeaders == {"x_cloud_api_key", "x_cloud_encrypted_key", "x_cloud_iv"}

RequiredHeaders ==
    {"x_use_local_provider", "x_use_snippet_model",
     "x_default_local_provider", "x_default_cloud_provider",
     "x_local_alignment_model", "x_local_snippet_model"}

Rejected400(q) ==
    /\ q.resp.status = 400
    /\ q.resp.detail = "Incomplete headers"
    /\ ~q.resp.streaming

\* C6: unless demo-mode fallback is configured and none of the three
\* envelope headers was supplied, a request that omits one of the six
\* required headers is answered 400 "Incomplete headers" and no adapter
\* is invoked.
C6_MissingRequiredHeaderRejected ==
    \A r \in Requests :
        LET q == reqs[r] IN
        (/\ Responded(q)
         /\ ~(DemoFallback(settings)
              /\ \A n \in EnvelopeHeaders : q.hdr[n] = None)
         /\ \E n \in RequiredHeaders : q.hdr[n] = None)
        => (Rejected400(q) /\ q.resp.call.adapter = "none")

\* C7: in the non-demo path a request with every required header, the
\* local URL, legal flags, a registered provider on the selected side (with
\* a complete envelope on the cloud side), models the host has and a
\* backend whose client could be built is answered 200 with a stream.
C7_CompleteRequestStreams ==
    \A r \in Requests :
        LET q == reqs[r]
            h == q.hdr
        IN
        (/\ Responded(q)
         /\ ~DemoFallback(settings)
         /\ \A n \in RequiredHeaders \cup {"x_local_url"} : h[n] # None
         /\ h.x_use_local_provider \in {"true", "false"}
         /\ h.x_use_snippet_model \in {"true", "false"}
         /\ h.x_local_snippet_model \in HostModels
         /\ h.x_local_alignment_model \in HostModels
         /\ IF h.x_use_local_provider = "true"
            THEN h.x_default_local_provider \in {"srvllama", "ollama"}
            ELSE /\ h.x_default_cloud_provider \in HostedAdapters
                 /\ has_client_keys(h)
         /\ q.resp.call.client # "failed")
        => (q.resp.status = 200 /\ q.resp.streaming)

\* C8: in non-demo mode a cloud request to a hosted adapter that lacks one
\* of the three envelope headers is answered 400 "Incomplete headers" and
\* no provider client is constructed.
C8_PartialEnvelopeRejected ==
    \A r \in Requests :
        LET q == reqs[r]
            h == q.hdr
        IN
        (/\ Responded(q)
         /\ ~DemoFallback(settings)
         /\ h.x_use_local_provider = "false"
         /\ h.x_default_cloud_provider \in HostedAdapters
         /\ \E n \in EnvelopeHeaders : h[n] = None)
        => (Rejected400(q) /\ q.resp.call.client = "none")

\* C9: when decrypt_envelope returned "error" for the request, the
\* request failed with a 4xx or 503 before streaming, and "error" was not
\* handed to a provider client as its API key.
C9_DecryptErrorFailsClosed ==
    \A r \in Requests :
        LET q == reqs[r]
            h == q.hdr
        IN
        (/\ Responded(q)
         /\ q.resp.call.source = "envelope"
         /\ decrypt_envelope(h.x_cloud_encrypted_key, h.x_cloud_iv,
                             h.x_cloud_api_key, settings.RSA_PRIVATE_KEY)
                = DECRYPT_ERROR)
        => /\ q.resp.status \in {400, 401, 403, 404, 503}
           /\ ~q.resp.streaming
           /\ q.resp.call.api_key # DECRYPT_ERROR

\* C10: a hosted adapter uses the server-side fallback credential only
\* when demo mode is configured and the caller supplied no complete
\* envelope: with all three envelope headers supplied the credential is
\* the one derived from the envelope, whatever the other headers are.
C10_FallbackOnlyWithoutEnvelope ==
    \A r \in Requests :
        LET q == reqs[r]
            h == q.hdr
        IN
        (/\ Responded(q)
         /\ q.resp.call.adapter \in HostedAdapters
         /\ q.resp.call.api_key # None)
        => /\ q.resp.call.source = "fallback"
                => (DemoFallback(settings) /\ ~has_client_keys(h))
           /\ has_client_keys(h)
                => /\ q.resp.call.source = "envelope"
                   /\ q.resp.call.api_key =
                        decrypt_envelope(h.x_cloud_encrypted_key, h.x_cloud_iv,
                                         h.x_cloud_api_key,
                                         settings.RSA_PRIVATE_KEY)

\* C11: with demo mode and a server-side key configured and no envelope
\* header supplied, a request that selects cloud and names a registered
\* hosted provider is not rejected, whatever its other headers are: the
\* provider client is constructed with the server-side key and, unless the
\* constructor itself failed, the response is 200 with the adapter's stream.
C11_DemoFallbackStreams ==
    \A r \in Requests :
        LET q == reqs[r]
            h == q.hdr
        IN
        (/\ Responded(q)
         /\ DemoFallback(settings)
         /\ \A n \in EnvelopeHeaders : h[n] = None
         /\ h.x_use_local_provider # "true"
         /\ h.x_default_cloud_provider \in HostedAdapters)
        => /\ q.resp.status # 400
           /\ q.resp.call.adapter = h.x_default_cloud_provider
           /\ q.resp.call.source = "fallback"
           /\ q.resp.call.api_key = settings.SERVER_SIDE_API_KEY
           /\ q.resp.call.client # "failed"
                => (q.resp.status = 200 /\ q.resp.streaming)

\* A demo-mode request carrying nothing but the cloud provider's name has
\* been answered with a stream.
C11_Witness ==
    /\ Responded(reqs[1])
    /\ DemoFallback(settings)
    /\ reqs[1].hdr = [NoHeaders EXCEPT !.x_default_cloud_provider = "grok"]
    /\ reqs[1].resp.streaming
    /\ reqs[1].resp.call.api_key = SERVER_KEY

(***************************************************************************)
(* Properties of the Envelope Decryption Unit                              *)
(***************************************************************************)
\* C12: an envelope sealed for a key pair and delivered as sealed decrypts
\* under that pair's private key to exactly the plaintext that was sealed.
C12_EnvelopeRoundTrip ==
    (/\ crypto.pc = "decrypted"
     /\ ~crypto.malformed
     /\ crypto.private_key = private_pem(crypto.pair))
    => crypto.result = crypto.data

\* A non-empty credential sealed for the second key pair has been decrypted.
C12_Witness ==
    /\ crypto.pc = "decrypted"
    /\ ~crypto.malformed
    /\ crypto.pair = "other"
    /\ crypto.private_key = private_pem("other")
    /\ crypto.data = USER_KEY
    /\ crypto.result = USER_KEY

\* C13: decrypt_envelope never raises, and for a malformed envelope (a field
\* that is not base64, a truncated or corrupted ciphertext, a foreign nonce
\* or data key, a payload that is not UTF-8) or a private key other than the
\* one the envelope was sealed for it returns exactly "error".
C13_DecryptFailClosed ==
    crypto.pc = "decrypted" =>
        /\ crypto.result # RAISED
        /\ (crypto.malformed \/ crypto.private_key # private_pem(crypto.pair))
               => crypto.result = DECRYPT_ERROR

\* A truncated ciphertext has been refused under the right private key.
C13_Witness ==
    /\ crypto.pc = "decrypted"
    /\ crypto.malformed
    /\ crypto.ct = b64encode(truncated(AESGCM_encrypt(crypto.dek, crypto.nonce,
                                                      utf8_encode(crypto.data))))
    /\ crypto.private_key = private_pem(crypto.pair)
    /\ crypto.result = DECRYPT_ERROR

(***************************************************************************)
(* Properties of the Provider Adapters                                     *)
(***************************************************************************)
\* The opening words of each adapter's 503 detail.
NotInitialized ==
    [a \in HostedAdapters \cup {"ollama"} |->
        IF a = "gemini" THEN "Gemini client is not initialized"
        ELSE IF a = "openai" THEN "OpenAI client is not initialized"
        ELSE IF a = "grok" THEN "Grok client is not initialized"
        ELSE IF a = "claude" THEN "Claude client is not initialized"
        ELSE "Ollama client is not initialized"]

\* C14: when the construction of the provider client failed (a hosted SDK
\* constructor raised, or the local daemon could not be reached), the
\* response is 503 "<Provider> client is not initialized" and is no stream.
C14_ClientFailureIs503 ==
    \A r \in Requests :
        LET q == reqs[r] IN
        (Responded(q) /\ q.resp.call.client = "failed")
        => /\ q.resp.call.adapter \in DOMAIN NotInitialized
           /\ q.resp.status = 503
           /\ q.resp.detail = NotInitialized[q.resp.call.adapter]
           /\ ~q.resp.streaming
           /\ q.produced = <<>> /\ q.forwarded = <<>>

\* The xAI client could not be constructed and the request was refused.
C14_Witness ==
    /\ Responded(reqs[1])
    /\ reqs[1].resp.call.adapter = "grok"
    /\ reqs[1].resp.call.client = "failed"
    /\ reqs[1].resp.status = 503

\* C15 (local daemon): the ollama adapter answers 404 "Unavailable model"
\* exactly when the model it would stream with (the snippet model in
\* snippet mode, the alignment model in full mode) is missing from the
\* host's list, and never opens a stream with a model the host lacks.
C15_OllamaModelChecked ==
    \A r \in Requests :
        LET q == reqs[r]
            h == q.hdr
            streamed == IF tri_state(h.x_use_snippet_model) = PyTrue
                        THEN h.x_local_snippet_model
                        ELSE h.x_local_alignment_model
        IN
        (Responded(q) /\ q.resp.call.adapter = "ollama"
                      /\ q.resp.call.client = "built")
        => /\ q.resp.streaming => q.resp.call.model \in HostModels
           /\ (q.resp.status = 404) <=> (streamed \notin HostModels)

\* C16: when opening or iterating the upstream stream of a hosted adapter
\* raised, the response is still the 200 stream, exactly one of its chunks
\* is sentinel-prefixed, and that chunk is the last chunk of the stream.
C16_StreamErrorInBand ==
    \A r \in Requests :
        LET q == reqs[r] IN
        (q.gen = "failed" /\ q.resp.call.adapter \in HostedAdapters)
        => /\ q.resp.status = 200 /\ q.resp.streaming
           /\ q.pc \in {"at_yield", "await", "done", "closed"}
           /\ q.produced # <<>>
           /\ SentinelPrefixed(q.produced[Len(q.produced)])
           /\ Cardinality({i \in DOMAIN q.produced :
                              SentinelPrefixed(q.produced[i])}) = 1

\* The xAI stream failed after one text chunk and was drained.
C16_Witness ==
    /\ reqs[1].gen = "failed"
    /\ reqs[1].resp.call.adapter = "grok"
    /\ Drained(reqs[1])
    /\ Len(reqs[1].forwarded) = 2
    /\ reqs[1].forwarded[2] = API_ERROR_PREFIX

\* The model an adapter is meant to stream with in each mode (gemini and
\* grok have a single model).
ModeModel(adapter, h, snippet) ==
    IF adapter \in {"srvllama", "ollama"}
    THEN (IF snippet THEN h.x_local_snippet_model
                     ELSE h.x_local_alignment_model)
    ELSE IF adapter = "openai"
    THEN (IF snippet THEN "gpt-4o-mini" ELSE "gpt-4o")
    ELSE IF adapter = "claude"
    THEN (IF snippet THEN "claude-3-haiku-20240307"
                     ELSE "claude-3-5-sonnet-20240620")
    ELSE IF adapter = "gemini" THEN "gemini-2.5-flash"
    ELSE "grok-beta"

\* C17: a stream opened for a request whose x-use-snippet-model is "true"
\* uses the snippet prompt and the adapter's snippet model, and one whose
\* flag is "false" uses the full audit prompt and the adapter's larger
\* model.
C17_ModeSelectsModelAndPrompt ==
    \A r \in Requests :
        LET q == reqs[r]
            h == q.hdr
            snippet == h.x_use_snippet_model = "true"
        IN
        (/\ Responded(q)
         /\ q.resp.streaming
         /\ h.x_use_snippet_model \in {"true", "false"})
        => /\ q.resp.call.prompt = IF snippet THEN SYSTEM_PROMPT_FOR_SNIPPETS
                                              ELSE SYSTEM_PROMPT
           /\ q.resp.call.model = ModeModel(q.resp.call.adapter, h, snippet)

(***************************************************************************)
(* Properties of the Dispatch Router's routing                             *)
(***************************************************************************)
LocalAdapters == {"srvllama", "ollama"}

\* The header naming the provider of the selected side, and of the other.
SelectedName(h) ==
    IF h.x_use_local_provider = "true"
    THEN "x_default_local_provider" ELSE "x_default_cloud_provider"

OtherName(h) ==
    IF h.x_use_local_provider = "true"
    THEN "x_default_cloud_provider" ELSE "x_default_local_provider"

\* The request in slot r passed the router's validation with a literal
\* local/cloud selector.
Routed(q) ==
    /\ Responded(q)
    /\ ~incomplete_headers(settings, q.hdr)
    /\ q.hdr.x_use_local_provider \in {"true", "false"}

\* The adapter named `name` ran, with the base URL its provider calls for.
Invoked(q, name) ==
    /\ q.resp.call.adapter = name
    /\ name = "grok" => q.resp.call.base_url = "https://api.x.ai/v1"
    /\ name = "openai" => q.resp.call.base_url = "default"

\* The response does not depend on the provider name of the other side.
OtherSideIgnored(q) ==
    \E ctor_ok \in BOOLEAN, daemon_up \in BOOLEAN :
        q.resp = route(settings, [q.hdr EXCEPT ![OtherName(q.hdr)] = "nope"],
                       ctor_ok, daemon_up)

\* C18 as stated: a request that passed validation runs the adapter
\* registered in REQUEST_MAP under the provider name of the selected side,
\* whatever the other side's name is.
C18_RegisteredAdapterInvoked ==
    \A r \in Requests :
        LET q == reqs[r] IN
        (Routed(q) /\ q.hdr[SelectedName(q.hdr)] \in DOMAIN REQUEST_MAP)
        => (Invoked(q, q.hdr[SelectedName(q.hdr)]) /\ OtherSideIgnored(q))

\* C18 (amended): a request that passed validation runs the adapter named
\* by the selected side when that name is a local adapter (srvllama,
\* ollama) on the local side or a hosted adapter (gemini, openai, grok,
\* claude) on the cloud side, whatever the other side's name is; a name
\* registered for the other side only is answered 500 and runs no adapter.
C18_SideAdapterInvoked ==
    \A r \in Requests :
        LET q == reqs[r]
            name == q.hdr[SelectedName(q.hdr)]
            side == IF q.hdr.x_use_local_provider = "true"
                    THEN LocalAdapters ELSE HostedAdapters
        IN
        (Routed(q) /\ name \in DOMAIN REQUEST_MAP)
        => /\ OtherSideIgnored(q)
           /\ IF name \in side
              THEN Invoked(q, name)
              ELSE q.resp.status = 500 /\ q.resp.call.adapter = "none"

\* A cloud request for grok, with a local provider named as well, built the
\* x.ai client and streams.
C18_Witness ==
    /\ Routed(reqs[1])
    /\ reqs[1].hdr.x_use_local_provider = "false"
    /\ reqs[1].hdr.x_default_cloud_provider = "grok"
    /\ reqs[1].hdr.x_default_local_provider = "ollama"
    /\ reqs[1].resp.call.adapter = "grok"
    /\ reqs[1].resp.call.base_url = "https://api.x.ai/v1"
    /\ reqs[1].resp.streaming

\* C19: outside demo mode, a request whose x-use-local-provider or
\* x-use-snippet-model is absent or is not the literal "true" or "false"
\* is answered 400 "Incomplete headers" and reaches no adapter (stated for
\* the requests without a complete envelope, whose headers the router
\* does validate).
C19_FlagsResolvedBeforeRouting ==
    \A r \in Requests :
        LET q == reqs[r]
            h == q.hdr
        IN
        (/\ Responded(q)
         /\ ~DemoFallback(settings)
         /\ ~has_client_keys(h)
         /\ \/ tri_state(h.x_use_local_provider) = None
            \/ tri_state(h.x_use_snippet_model) = None)
        => (Rejected400(q) /\ q.resp.call.adapter = "none")

\* The provider name routing selects: the local one when the selector
\* resolved to True, else the cloud one.
RoutedName(h) ==
    IF tri_state(h.x_use_local_provider) = PyTrue
    THEN h.x_default_local_provider ELSE h.x_default_cloud_provider

\* C20: when the provider name routing selects is not registered, the
\* request fails with a 500 (not a 4xx), no adapter is invoked, no chunk is
\* streamed, and no signature the request may carry has anything saved.
C20_UnknownProviderIsServerError ==
    \A r \in Requests :
        LET q == reqs[r] IN
        (/\ Responded(q)
         /\ ~incomplete_headers(settings, q.hdr)
         /\ RoutedName(q.hdr) \notin DOMAIN REQUEST_MAP)
        => /\ q.resp.status = 500
           /\ ~q.resp.streaming
           /\ q.resp.call = NoCall
           /\ q.produced = <<>> /\ q.forwarded = <<>>
           /\ \A sig \in {None, "", "sig1"} : ~tapped(sig, q.resp)
           /\ q.saves = <<>>
           /\ alignments = {}

\* A complete cloud request naming a provider nobody registered was refused.
C20_Witness ==
    /\ Responded(reqs[1])
    /\ required_headers_present(reqs[1].hdr)
    /\ reqs[1].hdr.x_use_local_provider = "false"
    /\ reqs[1].hdr.x_default_cloud_provider = "nope"
    /\ reqs[1].resp.status = 500

(***************************************************************************)
(* Properties of credential handling, error classification and scheduling  *)
(***************************************************************************)
\* C21: whatever the provider and the outcome, a request has made at most
\* one plaintext-credential derivation: one decrypt_envelope call or one
\* fallback substitution, never both and never twice; the key handed to the
\* client is the outcome of that derivation.
C21_AtMostOneDerivation ==
    \A r \in Requests :
        LET q == reqs[r]
            d == q.resp.call.derivations
        IN
        Responded(q) =>
            /\ Len(d) <= 1
            /\ d = <<"decrypt_envelope">> <=> q.resp.call.source = "envelope"
            /\ d = <<"fallback">> <=> q.resp.call.source = "fallback"
            /\ q.resp.call.adapter \in LocalAdapters \cup {"none"} => d = <<>>

\* In demo mode a request with an envelope that does not decrypt reached the
\* OpenAI client after its single derivation.
C21_Witness ==
    /\ Responded(reqs[1])
    /\ DemoFallback(settings)
    /\ reqs[1].hdr.x_cloud_api_key = CT_BAD
    /\ reqs[1].resp.call.adapter = "openai"
    /\ reqs[1].resp.call.derivations = <<"decrypt_envelope">>
    /\ reqs[1].resp.call.api_key = DECRYPT_ERROR

\* C22: the final chunk of a hosted stream that failed with the provider
\* SDK's own API-error type is prefixed "\n[API_ERROR]", and the final
\* chunk of one that failed with any other exception "\n[SERVER_ERROR]"
\* (stated for the adapters whose generate_stream is in api.py).
C22_ErrorClassification ==
    \A r \in Requests :
        LET q == reqs[r]
            last == q.produced[Len(q.produced)]
        IN
        (q.gen = "failed" /\ q.resp.call.adapter \in {"gemini", "openai", "grok"})
        => /\ q.failure = "api_error" => startswith(last, API_ERROR_PREFIX)
           /\ q.failure = "other" => startswith(last, SERVER_ERROR_PREFIX)

\* C23: while one request waits for its next upstream chunk, another
\* request in flight can take its next step: one that has sent a chunk can
\* resume, and one that waits as well can receive its chunk.
C23_WaitingDoesNotBlockOthers ==
    \A r \in Requests, o \in Requests :
        (r # o /\ reqs[r].pc = "await" /\ reqs[r].gen = "running")
        => /\ reqs[o].pc = "at_yield" => ENABLED Resume(o)
           /\ reqs[o].pc = "responded" /\ reqs[o].resp.streaming
                => ENABLED SendStart(o)

(***************************************************************************)
(* Properties of concurrent requests and of the tap's single write         *)
(***************************************************************************)
SentinelTokens == {NL, TAG_SERVER_ERROR, TAG_API_ERROR}

\* Every token of the text comes from the stream of request r.
OwnText(text, r) ==
    \A i \in DOMAIN text : text[i] \in {OwnToken(r)} \cup SentinelTokens

\* C24: under any interleaving of two requests, the accumulator of each
\* holds only text of its own stream, what it commits is an accumulation of
\* its own chunks, and every stored record is the accumulation of one
\* request, never a mixture.
C24_AccumulatorsIsolated ==
    /\ \A r \in Requests :
          LET q == reqs[r] IN
          /\ OwnText(q.full_text, r)
          /\ \E k \in 0..Len(q.produced) :
                q.full_text = Concat(SubSeq(q.produced, 1, k))
          /\ \A i \in DOMAIN q.saves :
                \E k \in 1..Len(q.produced) :
                    q.saves[i] = <<q.sig, Concat(SubSeq(q.produced, 1, k))>>
    /\ \A row \in alignments :
          \E r \in Requests : OwnText(row.alignment_text, r)

\* Both requests have accumulated text at once and the second has committed.
C24_Witness ==
    /\ reqs[1].full_text # <<>>
    /\ reqs[1].pc \in {"await", "at_yield"}
    /\ reqs[2].saves # <<>>
    /\ Row("sig1", <<"b">>) \in alignments

\* C25: a request commits to the Alignment Store at most once, and from
\* the moment it has committed no further chunk is produced for it or
\* forwarded to its caller and its accumulation is final: the only step
\* left to it is the end of the response.
C25_AtMostOneWrite ==
    [][\A r \in Requests :
          /\ Len(reqs[r].saves) <= 1
          /\ Len(reqs'[r].saves) <= 1
          /\ reqs[r].saves # <<>>
               => \/ reqs'[r] = reqs[r]
                  \/ reqs'[r] = Idle]_vars

\* A request has committed after two chunks were forwarded.
C25_Witness ==
    /\ Len(reqs[1].saves) = 1
    /\ Len(reqs[1].forwarded) = 2
    /\ reqs[1].pc = "done"

\* The 4xx statuses and 503.
ErrorStatuses == (400..499) \cup {503}

\* Request q is answered with a 4xx or a 503.
RejectedWithError(q) == Responded(q) /\ q.resp.status \in ErrorStatuses

\* C26: a request answered with a 4xx or a 503 has no body stream and no
\* tap, has had no chunk produced or forwarded and has committed nothing,
\* with or without a signature; the step that builds the response and the
\* step that sends it leave the Alignment Store as it was, and sending it
\* ends the request.
C26_ErrorResponseHasNoEffect ==
    [][\A r \in Requests :
          /\ RejectedWithError(reqs'[r])
               => /\ alignments' = alignments
                  /\ ~reqs'[r].resp.streaming
                  /\ ~reqs'[r].tapped
                  /\ reqs'[r].produced = <<>>
                  /\ reqs'[r].forwarded = <<>>
                  /\ reqs'[r].saves = <<>>
          /\ RejectedWithError(reqs[r])
               => /\ alignments' = alignments
                  /\ reqs'[r] = Idle]_vars

\* A request with a signature is answered 503 while the store holds a
\* record.
C26_Witness ==
    /\ RejectedWithError(reqs[1])
    /\ reqs[1].resp.status = 503
    /\ reqs[1].sig = "sig1"
    /\ alignments # {}

\* C27: the text a request has committed is the concatenation, in order,
\* of all the chunks that were yielded to its caller.
C27_StoredTextIsWhatWasYielded ==
    \A r \in Requests :
        \A i \in 1..Len(reqs[r].saves) :
            reqs[r].saves[i][2] = Concat(reqs[r].forwarded)

(***************************************************************************)
(* Properties of the GitHub webhook endpoint                               *)
(***************************************************************************)
\* C28: when a webhook secret is configured, every logged event came in a
\* request whose X-Hub-Signature-256 header verifies against its body, and
\* a request without that header is answered 401.
C28_OnlySignedEventsProcessed ==
    Truthy(webhooks.GITHUB_WEBHOOK_SECRET)
    => /\ \A i \in 1..Len(webhooks.webhook_events) :
             LET e == webhooks.webhook_events[i] IN
             verify_signature(webhooks.GITHUB_WEBHOOK_SECRET, e.payload,
                              e.signature)
       /\ (/\ webhooks.deliveries > 0
           /\ webhooks.request.x_hub_signature_256 = None)
          => webhooks.response.status = 401

\* C29: a delivery for a tracked repository, signed with the secret that
\* start_tracking saved for it, is answered 200 and logged as processed,
\* whatever GITHUB_WEBHOOK_SECRET is.
C29_RepoSecretDeliveryAccepted ==
    [][\A row \in webhooks.tracked_repos :
          (/\ webhooks'.deliveries = webhooks.deliveries + 1
           /\ webhooks'.request.body = BodyOf(row.repo_full_name)
           /\ webhooks'.request.x_hub_signature_256 =
                  sign(row.webhook_secret, webhooks'.request.body))
          => /\ webhooks'.response.status = 200
             /\ Len(webhooks'.webhook_events)
                    = Len(webhooks.webhook_events) + 1
             /\ webhooks'.webhook_events[Len(webhooks'.webhook_events)]
                    .processed]_vars

(***************************************************************************)
(* Properties of the OAuth flow                                            *)
(***************************************************************************)
\* The callbacks that have completed with state st.
CompletedWith(st) ==
    {i \in 1..Len(oauth.completed) : oauth.completed[i].state = st}

\* C30: a state completes handle_callback at most once; a state that some
\* callback has found is no longer stored, also while that callback is
\* still exchanging its code; a callback that presents a state an earlier
\* callback has found returns None; and every token was stored by a
\* callback that presented an issued state before it expired.
C30_StateSingleUse ==
    /\ [](/\ \A st \in CallbackStates : Cardinality(CompletedWith(st)) <= 1
          /\ \A st \in oauth.consumed :
                get_oauth_state(oauth.oauth_states, st) = NoStateData
          /\ \A c \in OAuthCallbacks :
                oauth.callbacks[c].pc = "exchange"
                => CompletedWith(oauth.callbacks[c].state) = {}
          /\ \A i \in 1..Len(oauth.completed) :
                /\ oauth.completed[i].state \in oauth.issued
                /\ oauth.completed[i].presented_at
                      <= oauth.completed[i].expires_at)
    /\ [][\A c \in OAuthCallbacks :
            (/\ oauth.callbacks[c].pc = "idle"
             /\ oauth'.callbacks[c].pc # "idle"
             /\ oauth'.callbacks[c].state \in oauth.consumed)
            => /\ oauth'.callbacks[c].pc = "returned"
               /\ oauth'.callbacks[c].result = None
               /\ oauth'.github_tokens = oauth.github_tokens]_vars

\* A state has completed one callback, and a second callback that
\* presented the same state while the first was under way got None.
C30_Witness ==
    /\ \E i \in 1..Len(oauth.completed) : oauth.completed[i].state = "st1"
    /\ oauth.callbacks[1].state = "st1"
    /\ oauth.callbacks[1].result = "ok"
    /\ oauth.callbacks[2].pc = "returned"
    /\ oauth.callbacks[2].state = "st1"
    /\ oauth.callbacks[2].result = None
====
